---- MODULE Spec2Model ----
(***************************************************************************)
(* Model of benchmark-script.py: StorageBenchmark drives four passes       *)
(* (write/read x leveldb/ext4).  Each pass fills a shared task queue,      *)
(* appends one None sentinel per worker, runs num_workers invocations of   *)
(* worker() on a ThreadPoolExecutor, leaves the executor's with-block      *)
(* (which joins the pool threads) and then drains the result queue.        *)
(*                                                                         *)
(* Every I/O call (plyvel.DB open/put/get, file open/read/write) is an      *)
(* external collaborator: in Spec it may return, raise or never return;    *)
(* in SpecOK it raises only where the code's own state forces it (a read   *)
(* of a file that does not exist).                                         *)
(***************************************************************************)
EXTENDS Integers, Sequences, FiniteSets, TLC

\* ------------------------------------------------------------------ bounds
MaxFiles   == 2     \* num_files ranges over 0..MaxFiles
MaxWorkers == 2     \* num_workers ranges over 0..MaxWorkers
MaxSize    == 1     \* file_size is 0 or MaxSize
MaxLoad    == 4     \* configurations have num_files + num_workers <= MaxLoad

VARIABLES
    num_files, num_workers, file_size,   \* BenchmarkConfig
    opc,            \* position of the main thread in run_benchmark
    pass,           \* 1-based number of the pass being run
    i,              \* loop counter of the running for-loop in run_parallel_benchmark
    pres,           \* the local list `results` of run_parallel_benchmark
    ret,            \* the lists returned by the passes so far (dict literal under construction)
    results,        \* self.results
    task_queue,     \* self.task_queue
    result_queue,   \* self.result_queue
    work_queue,     \* the executor's internal queue of work items
    idle,           \* the executor's _idle_semaphore
    nthreads,       \* number of pool threads created by this executor
    tpc,            \* per pool thread: position in the pool loop / in worker()
    tfut,           \* per pool thread: the work item (future) it is running, 0 if none
    fstate,         \* per future: "none", "pending", "running", "done", "raised"
    cur,            \* per pool thread: the task its worker() holds
    res,            \* per pool thread: the result process_task returned
    thread_local,   \* self.thread_local: slot -> db handle (NoDb if no attribute)
    kv,             \* LevelDB content: key -> value
    fs,             \* ext4 directory: file name -> content
    \* history variables (not program state)
    deq,            \* this pass: per task index, how often it was dequeued
    terms,          \* this pass: per future, how many sentinels it dequeued
    opens,          \* this pass: per pool thread, how many db handles it opened
    uses,           \* this pass: <<handle, thread>> pairs of put/get calls
    written,        \* <<storage, index>> of the write tasks that completed
    reporter,       \* the Reporter methods run_benchmark has called, in order
    arrived,        \* this pass: the results put on the result queue, in put order
    printed         \* the lines print_results has written to standard output

vars == <<num_files, num_workers, file_size, opc, pass, i, pres, ret, results,
          task_queue, result_queue, work_queue, idle, nthreads, tpc, tfut,
          fstate, cur, res, thread_local, kv, fs, deq, terms, opens, uses,
          written, reporter, arrived, printed>>

cfgVars   == <<num_files, num_workers, file_size>>
orchVars  == <<opc, pass, i, pres, ret, results>>
poolVars  == <<work_queue, idle, nthreads, tpc, tfut, fstate>>
storeVars == <<kv, fs>>
histVars  == <<deq, terms, opens, uses, written, reporter, arrived, printed>>

Threads == 1..MaxWorkers
Futures == 1..MaxWorkers
Indices == 0..(MaxFiles - 1)

\* ------------------------------------------------------------- data model
\* The None sentinel of the task queue, and "no task held".
None == [operation |-> "None", storage |-> "None", index |-> -1]

Task(operation, storage_type, index) ==
    [operation |-> operation, storage |-> storage_type, index |-> index]

\* The shutdown marker (None) of the executor's work queue.
Stop == 0
\* A plyvel.DB object: the n-th one created by pool thread t.
Handle(t, n) == <<t, n>>
NoDb == <<>>
NoResult == [operation |-> "None", storage |-> "None", elapsed |-> <<>>]

\* end_time - start_time of one task: a symbolic measurement, one per task.
Elapsed(task) == <<task.operation, task.storage, task.index>>

\* Variant: the 'read' entry of the dict literal placed before 'write'.
PassOrderReadFirst ==
    << <<"read", "leveldb">>, <<"read", "ext4">>,
       <<"write", "leveldb">>, <<"write", "ext4">> >>

\* Variant: 'ext4' placed before 'leveldb' inside each entry.
PassOrderBackendSwapped ==
    << <<"write", "ext4">>, <<"write", "leveldb">>,
       <<"read", "ext4">>, <<"read", "leveldb">> >>

\* The order in which run_benchmark evaluates its dict literal.
PassOrder ==
    << <<"write", "leveldb">>, <<"write", "ext4">>,
       <<"read", "leveldb">>, <<"read", "ext4">> >>

NumPasses == 4

\* str(index): decimal digits, no padding.
RECURSIVE Decimal(_)
Decimal(n) == IF n < 10 THEN <<n>> ELSE Decimal(n \div 10) \o <<n % 10>>

\* f"key_{index}".encode()
Key(index) == <<"key_">> \o Decimal(index)

\* os.path.join(self.ext4_path, f"file_{index}")
FileName(index) == <<"file_">> \o Decimal(index)

\* string.ascii_letters + string.digits, abstracted to one character class.
Alphabet == {"c"}

\* Variant: k=size + 1.
generate_random_data_long(size) == [1..(size + 1) -> Alphabet]

\* generate_random_data(size): the strings random.choices can return.
generate_random_data(size) == [1..size -> Alphabet]

\* Variant: `db` kept as a plain attribute, one slot for all threads.
DbSlotShared(t) == 1

\* threading.local(): the attribute `db` is looked up in the calling thread's slot.
DbSlot(t) == t

\* Variant: a get that leaves the head in the queue.
DequeuePeek(q) == q

\* Queue.get(): the queue after removing its head.
Dequeue(q) == Tail(q)

\* Variant: a LifoQueue.
QueuePutLifo(q, x) == <<x>> \o q

\* Queue.put(x) on a FIFO queue.
QueuePut(q, x) == Append(q, x)

\* Variant: results.insert(0, result[2]).
ReceivedInFront(list, result) == <<result.elapsed>> \o list

\* results.append(result[2])
Received(list, result) == Append(list, result.elapsed)

\* Variant: one sentinel more than workers.
NumSentinelsExtra == num_workers + 1

\* Variant: one sentinel fewer than workers.
NumSentinelsShort == num_workers - 1

\* range(self.config.num_workers) of the sentinel loop.
NumSentinels == num_workers

\* Variant: the collect loop stops one result early.
NeedMoreShort == Len(pres) < num_files - 1

\* while len(results) < self.config.num_files
NeedMore == Len(pres) < num_files

\* ---------------------------------------------------------------- initial
Init ==
    /\ num_files \in 0..MaxFiles
    /\ num_workers \in 0..MaxWorkers
    /\ num_files + num_workers <= MaxLoad
    /\ file_size \in {0, MaxSize}
    /\ opc = "tasks"
    /\ pass = 1
    /\ i = 0
    /\ pres = <<>>
    /\ ret = <<>>
    /\ results = <<>>
    /\ task_queue = <<>>
    /\ result_queue = <<>>
    /\ work_queue = <<>>
    /\ idle = 0
    /\ nthreads = 0
    /\ tpc = [t \in Threads |-> "none"]
    /\ tfut = [t \in Threads |-> 0]
    /\ fstate = [f \in Futures |-> "none"]
    /\ cur = [t \in Threads |-> None]
    /\ res = [t \in Threads |-> NoResult]
    /\ thread_local = [t \in Threads |-> NoDb]
    /\ kv = <<>>
    /\ fs = <<>>
    /\ deq = [x \in Indices |-> 0]
    /\ terms = [f \in Futures |-> 0]
    /\ opens = [t \in Threads |-> 0]
    /\ uses = {}
    /\ written = {}
    /\ reporter = <<>>
    /\ arrived = <<>>
    /\ printed = <<>>

\* ------------------------------------------------- run_parallel_benchmark
\* for i in range(num_files): self.task_queue.put((operation, storage_type, i))
PutTask ==
    /\ opc = "tasks"
    /\ i < num_files
    /\ task_queue' = QueuePut(task_queue, Task(PassOrder[pass][1], PassOrder[pass][2], i))
    /\ i' = i + 1
    /\ UNCHANGED <<cfgVars, opc, pass, pres, ret, results, result_queue,
                   poolVars, cur, res, thread_local, storeVars, histVars>>

\* for _ in range(num_workers): self.task_queue.put(None)
PutSentinel ==
    /\ \/ opc = "tasks" /\ i >= num_files /\ 0 < NumSentinels /\ i' = 1
       \/ opc = "sentinels" /\ i < NumSentinels /\ i' = i + 1
    /\ opc' = "sentinels"
    /\ task_queue' = QueuePut(task_queue, None)
    /\ UNCHANGED <<cfgVars, pass, pres, ret, results, result_queue,
                   poolVars, cur, res, thread_local, storeVars, histVars>>

SentinelsDone ==
    \/ opc = "tasks" /\ i >= num_files /\ ~(0 < NumSentinels)
    \/ opc = "sentinels" /\ i >= NumSentinels

\* ThreadPoolExecutor(max_workers=num_workers): ValueError unless max_workers > 0.
ExecutorCreate ==
    /\ SentinelsDone
    /\ num_workers > 0
    /\ opc' = "submit"
    /\ i' = 0
    /\ work_queue' = <<>>
    /\ idle' = 0
    /\ nthreads' = 0
    /\ tpc' = [t \in Threads |-> "none"]
    /\ tfut' = [t \in Threads |-> 0]
    /\ fstate' = [f \in Futures |-> "none"]
    /\ thread_local' = [t \in Threads |-> NoDb]
    /\ deq' = [x \in Indices |-> 0]
    /\ terms' = [f \in Futures |-> 0]
    /\ opens' = [t \in Threads |-> 0]
    /\ uses' = {}
    /\ arrived' = <<>>
    /\ UNCHANGED <<cfgVars, pass, pres, ret, results, task_queue, result_queue,
                   cur, res, storeVars, written, reporter, printed>>

ExecutorCreateFails ==
    /\ SentinelsDone
    /\ ~(num_workers > 0)
    /\ opc' = "aborted"
    /\ UNCHANGED <<cfgVars, pass, i, pres, ret, results, task_queue, result_queue,
                   poolVars, cur, res, thread_local, storeVars, histVars>>

\* executor.submit(self.worker): queue a work item, then _adjust_thread_count:
\* take an idle thread if the semaphore has one, else start a thread.
Submit ==
    /\ opc = "submit"
    /\ i < num_workers
    /\ i' = i + 1
    /\ fstate' = [fstate EXCEPT ![i + 1] = "pending"]
    /\ work_queue' = Append(work_queue, i + 1)
    /\ IF idle > 0
       THEN /\ idle' = idle - 1
            /\ UNCHANGED <<nthreads, tpc>>
       ELSE IF nthreads < num_workers
            THEN /\ nthreads' = nthreads + 1
                 /\ tpc' = [tpc EXCEPT ![nthreads + 1] = "poll"]
                 /\ idle' = idle
            ELSE UNCHANGED <<idle, nthreads, tpc>>
    /\ UNCHANGED <<cfgVars, opc, pass, pres, ret, results, task_queue, result_queue,
                   tfut, cur, res, thread_local, storeVars, histVars>>

\* Leaving the with-block: executor.shutdown(wait=True) queues the stop marker ...
Shutdown ==
    /\ opc = "submit"
    /\ i >= num_workers
    /\ opc' = "join"
    /\ work_queue' = Append(work_queue, Stop)
    /\ UNCHANGED <<cfgVars, pass, i, pres, ret, results, task_queue, result_queue,
                   idle, nthreads, tpc, tfut, fstate, cur, res, thread_local,
                   storeVars, histVars>>

\* Variant: shutdown(wait=False).
AllJoinedNoWait == TRUE

\* ... and joins every pool thread.
AllJoined == \A t \in 1..nthreads : tpc[t] = "exited"

JoinDone ==
    /\ opc = "join"
    /\ AllJoined
    /\ opc' = "collect"
    /\ pres' = <<>>
    /\ UNCHANGED <<cfgVars, pass, i, ret, results, task_queue, result_queue,
                   poolVars, cur, res, thread_local, storeVars, histVars>>

\* result = self.result_queue.get(); results.append(result[2])
Collect ==
    /\ opc = "collect"
    /\ NeedMore
    /\ result_queue # <<>>
    /\ pres' = Received(pres, Head(result_queue))
    /\ result_queue' = Tail(result_queue)
    /\ UNCHANGED <<cfgVars, opc, pass, i, ret, results, task_queue,
                   poolVars, cur, res, thread_local, storeVars, histVars>>

\* return results; run_benchmark goes on to the next pass of the dict literal.
Return ==
    /\ opc = "collect"
    /\ ~NeedMore
    /\ ret' = Append(ret, pres)
    /\ pres' = <<>>
    /\ i' = 0
    /\ IF pass < NumPasses
       THEN pass' = pass + 1 /\ opc' = "tasks"
       ELSE pass' = pass /\ opc' = "assign"
    /\ UNCHANGED <<cfgVars, results, task_queue, result_queue,
                   poolVars, cur, res, thread_local, storeVars, histVars>>

\* ------------------------------------------------------------ run_benchmark
\* self.results = {'write': {...}, 'read': {...}}
AssignResults ==
    /\ opc = "assign"
    /\ results' = [k \in {PassOrder[p] : p \in 1..NumPasses} |->
                     ret[CHOOSE p \in 1..NumPasses : PassOrder[p] = k]]
    /\ opc' = "print"
    /\ UNCHANGED <<cfgVars, pass, i, pres, ret, task_queue, result_queue,
                   poolVars, cur, res, thread_local, storeVars, histVars>>

\* print_results: for operation in ['write', 'read']: for storage in ['leveldb', 'ext4']
PrintOrder ==
    << <<"write", "leveldb">>, <<"write", "ext4">>,
       <<"read", "leveldb">>, <<"read", "ext4">> >>

\* Variant: the statistics guarded against short lists.
StatsFailNever(times) == FALSE

\* statistics.mean raises StatisticsError on an empty list, statistics.stdev
\* on fewer than two samples.
StatsFail(times) == Len(times) < 2

\* The f"{storage}:" line and the six statistic lines of one entry.
StatLines(k) ==
    [n \in 1..7 |->
       <<"entry", k[1], k[2],
         <<"storage", "mean", "stdev", "p50", "p95", "p99", "throughput">>[n]>>]

\* The lines print_results writes from entry p on, and whether it got through:
\* the statistics of an entry are computed before its first line is printed.
RECURSIVE PrintFrom(_)
PrintFrom(p) ==
    IF p > Len(PrintOrder)
    THEN [lines |-> <<>>, ok |-> TRUE]
    ELSE LET k == PrintOrder[p]
             head == IF k[2] = "leveldb" THEN << <<"operation", k[1]>> >> ELSE <<>>
         IN  IF StatsFail(results[k])
             THEN [lines |-> head, ok |-> FALSE]
             ELSE LET rest == PrintFrom(p + 1)
                  IN  [lines |-> head \o StatLines(k) \o rest.lines, ok |-> rest.ok]

\* print_results: an exception from the statistics leaves run_benchmark.
PrintResults ==
    /\ opc = "print"
    /\ opc' = IF PrintFrom(1).ok THEN "plot" ELSE "aborted"
    /\ printed' = << <<"header">> >> \o PrintFrom(1).lines
    /\ reporter' = Append(reporter, "print_results")
    /\ UNCHANGED <<cfgVars, pass, i, pres, ret, results, task_queue, result_queue,
                   poolVars, cur, res, thread_local, storeVars,
                   deq, terms, opens, uses, written, arrived>>

PlotResults ==
    /\ opc = "plot"
    /\ opc' = "done"
    /\ reporter' = Append(reporter, "plot_results")
    /\ UNCHANGED <<cfgVars, pass, i, pres, ret, results, task_queue, result_queue,
                   poolVars, cur, res, thread_local, storeVars,
                   deq, terms, opens, uses, written, arrived, printed>>

\* ------------------------------------------------ ThreadPoolExecutor threads
\* The pool thread's loop: work_queue.get_nowait(), or else release the idle
\* semaphore and block in work_queue.get().
ThreadTake(t) ==
    /\ tpc[t] \in {"poll", "wait"}
    /\ work_queue # <<>>
    /\ IF Head(work_queue) = Stop
       THEN \* shutdown: put the marker back for the other threads and return
            /\ work_queue' = Append(Tail(work_queue), Stop)
            /\ tpc' = [tpc EXCEPT ![t] = "exited"]
            /\ UNCHANGED <<tfut, fstate>>
       ELSE \* work_item.run(): call self.worker()
            /\ work_queue' = Tail(work_queue)
            /\ tpc' = [tpc EXCEPT ![t] = "get"]
            /\ tfut' = [tfut EXCEPT ![t] = Head(work_queue)]
            /\ fstate' = [fstate EXCEPT ![Head(work_queue)] = "running"]
    /\ UNCHANGED <<cfgVars, orchVars, task_queue, result_queue, idle, nthreads,
                   cur, res, thread_local, storeVars, histVars>>

ThreadFindsEmpty(t) ==
    /\ tpc[t] = "poll"
    /\ work_queue = <<>>
    /\ tpc' = [tpc EXCEPT ![t] = "release"]
    /\ UNCHANGED <<cfgVars, orchVars, task_queue, result_queue, work_queue, idle,
                   nthreads, tfut, fstate, cur, res, thread_local, storeVars,
                   histVars>>

ThreadRelease(t) ==
    /\ tpc[t] = "release"
    /\ idle' = idle + 1
    /\ tpc' = [tpc EXCEPT ![t] = "wait"]
    /\ UNCHANGED <<cfgVars, orchVars, task_queue, result_queue, work_queue,
                   nthreads, tfut, fstate, cur, res, thread_local, storeVars,
                   histVars>>

\* ------------------------------------------------------------------ worker
\* task = self.task_queue.get() returning a task tuple
WorkerGetTask(t) ==
    /\ tpc[t] = "get"
    /\ task_queue # <<>>
    /\ Head(task_queue) # None
    /\ cur' = [cur EXCEPT ![t] = Head(task_queue)]
    /\ task_queue' = Dequeue(task_queue)
    /\ tpc' = [tpc EXCEPT ![t] = "process"]
    /\ deq' = [deq EXCEPT ![Head(task_queue).index] = @ + 1]
    /\ UNCHANGED <<cfgVars, orchVars, result_queue, work_queue, idle, nthreads,
                   tfut, fstate, res, thread_local, storeVars, terms, opens,
                   uses, written, reporter, arrived, printed>>

\* task = self.task_queue.get() returning None: break, worker() returns
WorkerGetSentinel(t) ==
    /\ tpc[t] = "get"
    /\ task_queue # <<>>
    /\ Head(task_queue) = None
    /\ task_queue' = Dequeue(task_queue)
    /\ terms' = [terms EXCEPT ![tfut[t]] = @ + 1]
    /\ fstate' = [fstate EXCEPT ![tfut[t]] = "done"]
    /\ tfut' = [tfut EXCEPT ![t] = 0]
    /\ tpc' = [tpc EXCEPT ![t] = "poll"]
    /\ UNCHANGED <<cfgVars, orchVars, result_queue, work_queue, idle, nthreads,
                   cur, res, thread_local, storeVars, deq, opens, uses, written,
                   reporter, arrived, printed>>

\* An exception leaves worker(): the executor stores it in the future and the
\* pool thread goes back to its loop.
Raises(t) ==
    /\ fstate' = [fstate EXCEPT ![tfut[t]] = "raised"]
    /\ tfut' = [tfut EXCEPT ![t] = 0]
    /\ tpc' = [tpc EXCEPT ![t] = "poll"]
    /\ cur' = [cur EXCEPT ![t] = None]

Store(f, k, v) == [x \in DOMAIN f \cup {k} |-> IF x = k THEN v ELSE f[x]]

HasDb(t) == thread_local[DbSlot(t)] # NoDb

\* get_db_connection, first call: plyvel.DB(self.leveldb_path, create_if_missing=True)
OpenDb(t) ==
    /\ tpc[t] = "process"
    /\ cur[t].storage = "leveldb"
    /\ ~HasDb(t)
    /\ thread_local' = [thread_local EXCEPT ![DbSlot(t)] = Handle(t, opens[t] + 1)]
    /\ opens' = [opens EXCEPT ![t] = @ + 1]
    /\ UNCHANGED <<cfgVars, orchVars, task_queue, result_queue, poolVars, cur,
                   res, storeVars, deq, terms, uses, written, reporter,
                   arrived, printed>>

\* process_task: the I/O of the task, then the (operation, storage_type, elapsed) result
ProcessTask(t) ==
    /\ tpc[t] = "process"
    /\ cur[t].storage = "leveldb" => HasDb(t)
    /\ LET task == cur[t]
           done == /\ res' = [res EXCEPT ![t] =
                                 [operation |-> task.operation,
                                  storage |-> task.storage,
                                  elapsed |-> Elapsed(task)]]
                   /\ tpc' = [tpc EXCEPT ![t] = "put"]
                   /\ UNCHANGED <<tfut, fstate, cur>>
           used == uses' = uses \cup {<<thread_local[DbSlot(t)], t>>}
       IN  IF task.operation = "write"
           THEN \E data \in generate_random_data(file_size) :
                  /\ IF task.storage = "leveldb"
                     THEN /\ kv' = Store(kv, Key(task.index), data)
                          /\ used
                          /\ fs' = fs
                     ELSE /\ fs' = Store(fs, FileName(task.index), data)
                          /\ UNCHANGED <<kv, uses>>
                  /\ written' = written \cup {<<task.storage, task.index>>}
                  /\ done
           ELSE IF task.storage = "leveldb"
                THEN \* db.get returns None for a key that is not there
                     /\ used
                     /\ done
                     /\ UNCHANGED <<kv, fs, written>>
                ELSE IF FileName(task.index) \in DOMAIN fs
                     THEN /\ done
                          /\ UNCHANGED <<kv, fs, uses, written>>
                     ELSE \* open(filepath, 'r'): FileNotFoundError
                          /\ Raises(t)
                          /\ UNCHANGED <<res, kv, fs, uses, written>>
    /\ UNCHANGED <<cfgVars, orchVars, task_queue, result_queue, work_queue, idle,
                   nthreads, thread_local, deq, terms, opens, reporter,
                   arrived, printed>>

\* self.result_queue.put(result); self.task_queue.task_done()
WorkerPut(t) ==
    /\ tpc[t] = "put"
    /\ result_queue' = QueuePut(result_queue, res[t])
    /\ arrived' = Append(arrived, res[t])
    /\ res' = [res EXCEPT ![t] = NoResult]
    /\ cur' = [cur EXCEPT ![t] = None]
    /\ tpc' = [tpc EXCEPT ![t] = "get"]
    /\ UNCHANGED <<cfgVars, orchVars, task_queue, work_queue, idle, nthreads,
                   tfut, fstate, thread_local, storeVars,
                   deq, terms, opens, uses, written, reporter, printed>>

\* ---------------------------------------------------- faults of the I/O calls
\* The pending I/O call of the task (DB open, put, get, file open/read/write)
\* raises.  A failed file write may have created or truncated the file.
IoRaise(t) ==
    /\ tpc[t] = "process"
    /\ Raises(t)
    /\ \/ fs' = fs
       \/ /\ cur[t].operation = "write"
          /\ cur[t].storage = "ext4"
          /\ fs' = Store(fs, FileName(cur[t].index), <<>>)
    /\ UNCHANGED <<cfgVars, orchVars, task_queue, result_queue, work_queue, idle,
                   nthreads, res, thread_local, kv, histVars>>

\* The pending I/O call of the task never returns.
IoHang(t) ==
    /\ tpc[t] = "process"
    /\ tpc' = [tpc EXCEPT ![t] = "hung"]
    /\ UNCHANGED <<cfgVars, orchVars, task_queue, result_queue, work_queue, idle,
                   nthreads, tfut, fstate, cur, res, thread_local, storeVars,
                   histVars>>

\* ----------------------------------------------------------- specifications
Orchestrator ==
    \/ PutTask
    \/ PutSentinel
    \/ ExecutorCreate
    \/ ExecutorCreateFails
    \/ Submit
    \/ Shutdown
    \/ JoinDone
    \/ Collect
    \/ Return
    \/ AssignResults
    \/ PrintResults
    \/ PlotResults

Pool(t) ==
    \/ ThreadTake(t)
    \/ ThreadFindsEmpty(t)
    \/ ThreadRelease(t)
    \/ WorkerGetTask(t)
    \/ WorkerGetSentinel(t)
    \/ OpenDb(t)
    \/ ProcessTask(t)
    \/ WorkerPut(t)

\* Every I/O call returns, unless the code's own state makes it raise.
NextOK == Orchestrator \/ \E t \in Threads : Pool(t)

SpecOK == Init /\ [][NextOK]_vars

\* I/O calls may also raise or hang.
Next ==
    \/ Orchestrator
    \/ \E t \in Threads : Pool(t)
    \/ \E t \in Threads : IoRaise(t)
    \/ \E t \in Threads : IoHang(t)

Spec == Init /\ [][Next]_vars

\* The payload length steers no branch of the run, so one length suffices
\* where only termination is asked.
InitFair == Init /\ file_size = MaxSize

\* No failing I/O call, and every thread that can take a step eventually does.
SpecFair ==
    /\ InitFair
    /\ [][NextOK]_vars
    /\ WF_vars(Orchestrator)
    /\ \A t \in Threads : WF_vars(Pool(t))

\* ------------------------------------------- process_task called on its own
\* A caller that holds one thread and calls process_task(operation,
\* storage_type, index) with any arguments, in any order, on fresh storage.
InitDirect ==
    /\ num_files = MaxFiles
    /\ num_workers = 1
    /\ file_size \in {0, MaxSize}
    /\ opc = "direct"
    /\ pass = 1
    /\ i = 0
    /\ pres = <<>>
    /\ ret = <<>>
    /\ results = <<>>
    /\ task_queue = <<>>
    /\ result_queue = <<>>
    /\ work_queue = <<>>
    /\ idle = 0
    /\ nthreads = 1
    /\ tpc = [t \in Threads |-> IF t = 1 THEN "call" ELSE "none"]
    /\ tfut = [t \in Threads |-> IF t = 1 THEN 1 ELSE 0]
    /\ fstate = [f \in Futures |-> IF f = 1 THEN "running" ELSE "none"]
    /\ cur = [t \in Threads |-> None]
    /\ res = [t \in Threads |-> NoResult]
    /\ thread_local = [t \in Threads |-> NoDb]
    /\ kv = <<>>
    /\ fs = <<>>
    /\ deq = [x \in Indices |-> 0]
    /\ terms = [f \in Futures |-> 0]
    /\ opens = [t \in Threads |-> 0]
    /\ uses = {}
    /\ written = {}
    /\ reporter = <<>>
    /\ arrived = <<>>
    /\ printed = <<>>

DirectCall(operation, storage_type, index) ==
    /\ opc = "direct"
    /\ tpc[1] = "call"
    /\ cur' = [cur EXCEPT ![1] = Task(operation, storage_type, index)]
    /\ tpc' = [tpc EXCEPT ![1] = "process"]
    /\ UNCHANGED <<cfgVars, orchVars, task_queue, result_queue, work_queue, idle,
                   nthreads, tfut, fstate, res, thread_local, storeVars,
                   histVars>>

\* process_task has returned its result, or raised: the caller goes on.
DirectReturn ==
    /\ opc = "direct"
    /\ tpc[1] \in {"put", "poll"}
    /\ tpc' = [tpc EXCEPT ![1] = "call"]
    /\ tfut' = [tfut EXCEPT ![1] = 1]
    /\ fstate' = [fstate EXCEPT ![1] = "running"]
    /\ cur' = [cur EXCEPT ![1] = None]
    /\ res' = [res EXCEPT ![1] = NoResult]
    /\ UNCHANGED <<cfgVars, orchVars, task_queue, result_queue, work_queue, idle,
                   nthreads, thread_local, storeVars, histVars>>

NextDirect ==
    \/ \E operation \in {"write", "read"}, storage_type \in {"leveldb", "ext4"},
          index \in Indices : DirectCall(operation, storage_type, index)
    \/ OpenDb(1)
    \/ ProcessTask(1)
    \/ DirectReturn

SpecDirect == InitDirect /\ [][NextDirect]_vars

\* ================================================================== claims
Range(q) == {q[k] : k \in 1..Len(q)}

AnyRaised == \E f \in Futures : fstate[f] = "raised"
AnyHung == \E t \in Threads : tpc[t] = "hung"

\* Threads that are inside process_task or hold its result.
Executing(t) == tpc[t] \in {"process", "put", "hung"}

\* The order of the passes as the specification states it.
StatedOrder ==
    << <<"write", "leveldb">>, <<"write", "ext4">>,
       <<"read", "leveldb">>, <<"read", "ext4">> >>

\* C1: whenever run_parallel_benchmark has returned, the list it returned has
\* exactly num_files entries, and so has every entry of the ResultsTable once
\* it is assembled.
C1_ReturnsNumFiles ==
    /\ \A p \in 1..Len(ret) : Len(ret[p]) = num_files
    /\ \A k \in DOMAIN results : Len(results[k]) = num_files

C1_Witness ==
    /\ num_files = 2
    /\ num_workers = 2
    /\ Len(ret) = NumPasses
    /\ DOMAIN results # {}

\* C2: with more than one worker, in every pass each task index is dequeued
\* at most once at any time and exactly once by the time collection is
\* complete, and the list a pass returns holds exactly one sample per task
\* index of that pass: no duplicate, no drop, for each of the repeated passes.
C2_EachTaskOnce ==
    num_workers > 1 =>
      /\ \A x \in Indices : deq[x] <= 1
      /\ (opc = "collect" /\ ~(Len(pres) < num_files)) =>
            /\ \A x \in Indices : deq[x] = IF x < num_files THEN 1 ELSE 0
            /\ Len(pres) = num_files
            /\ Range(pres) = {<<StatedOrder[pass][1], StatedOrder[pass][2], x>> :
                                x \in 0..(num_files - 1)}
      /\ \A p \in 1..Len(ret) :
            /\ Len(ret[p]) = num_files
            /\ Range(ret[p]) = {<<StatedOrder[p][1], StatedOrder[p][2], x>> :
                                  x \in 0..(num_files - 1)}

\* All four passes returned with two workers, and in the first one the
\* samples arrived in the reverse of the task order.
C2_Witness ==
    /\ num_workers = 2
    /\ num_files = 2
    /\ Len(ret) = NumPasses
    /\ ret[1] = << <<"write", "leveldb", 1>>, <<"write", "leveldb", 0>> >>

SentinelsQueued == Cardinality({k \in 1..Len(task_queue) : task_queue[k] = None})

RECURSIVE SumTerms(_)
SumTerms(n) == IF n = 0 THEN 0 ELSE terms[n] + SumTerms(n - 1)

C4_ReadAfterWrite ==
    \A t \in Threads :
      (Executing(t) /\ cur[t].operation = "read") =>
         /\ <<cur[t].storage, cur[t].index>> \in written
         /\ \A k \in 1..Len(task_queue) : task_queue[k].operation # "write"
         /\ \A u \in Threads : cur[u].operation # "write"

C4_Witness ==
    /\ num_workers = 2
    /\ \A t \in 1..2 : tpc[t] = "process" /\ cur[t].operation = "read"
                                           /\ cur[t].storage = "ext4"

\* C5: the passes return in the order write/leveldb, write/ext4,
\* read/leveldb, read/ext4; every task queued or executed and every result
\* queued belongs to the pass after the ones that returned; and the Reporter
\* runs print_results, then plot_results, only after all four passes returned
\* and self.results was assigned from them.
C5_PassesInOrder ==
    /\ pass = IF Len(ret) < NumPasses THEN Len(ret) + 1 ELSE NumPasses
    /\ \A p \in 1..Len(ret) : \A e \in Range(ret[p]) : <<e[1], e[2]>> = StatedOrder[p]
    /\ \A k \in 1..Len(task_queue) :
          task_queue[k] # None =>
             /\ Len(ret) < NumPasses
             /\ <<task_queue[k].operation, task_queue[k].storage>> = StatedOrder[Len(ret) + 1]
    /\ \A t \in Threads :
          cur[t] # None =>
             /\ Len(ret) < NumPasses
             /\ <<cur[t].operation, cur[t].storage>> = StatedOrder[Len(ret) + 1]
    /\ \A k \in 1..Len(result_queue) :
          /\ Len(ret) < NumPasses
          /\ <<result_queue[k].operation, result_queue[k].storage>> = StatedOrder[Len(ret) + 1]
    /\ reporter \in {<<>>, <<"print_results">>, <<"print_results", "plot_results">>}
    /\ (reporter # <<>> \/ opc \in {"print", "plot", "done"}) =>
          /\ Len(ret) = NumPasses
          /\ DOMAIN results = Range(StatedOrder)
          /\ \A p \in 1..NumPasses : results[StatedOrder[p]] = ret[p]

C5_Witness ==
    /\ opc = "done"
    /\ num_files = 2
    /\ reporter = <<"print_results", "plot_results">>

\* C6: once a task has raised inside a worker and the with-block of the
\* executor has been left, the run has aborted (it neither goes on to
\* collect, nor to later passes or the report, nor blocks).
C6_ErrorAbortsRun ==
    (AnyRaised /\ opc \notin {"submit", "join"}) => opc = "aborted"

\* C7: whenever process_task returns a timing result for a read task of index
\* i on a backend, a write task of index i on that backend completed before.
C7_ReadNeedsWrite ==
    \A t \in Threads :
      (tpc[t] = "put" /\ cur[t].operation = "read") =>
         <<cur[t].storage, cur[t].index>> \in written

\* C8: while the I/O call of a task hangs, the pass of that task has not
\* returned and never gets past the exit of the executor's with-block: no
\* result is collected, no later pass is started, no report is made.
C8_HangStallsPass ==
    \A t \in Threads :
      tpc[t] = "hung" =>
         /\ opc \in {"submit", "join"}
         /\ <<cur[t].operation, cur[t].storage>> = StatedOrder[pass]
         /\ Len(ret) = pass - 1
         /\ pres = <<>>
         /\ reporter = <<>>

\* One task hangs, every other task of the pass has completed and every
\* other pool thread has exited.
C8_Witness ==
    /\ num_files = 2
    /\ num_workers = 2
    /\ opc = "join"
    /\ Len(result_queue) = num_files - 1
    /\ \E t \in 1..2 : tpc[t] = "hung" /\ \A u \in (1..2) \ {t} : tpc[u] = "exited"

\* C9: a pool thread creates at most one db handle, the handle in its
\* thread-local slot is the one it created itself, every put/get of a thread
\* goes through the handle that thread created, and no handle is used by two
\* threads.
C9_HandlePerThread ==
    /\ \A t \in Threads : opens[t] <= 1
    /\ \A t \in Threads : thread_local[t] \in {NoDb, <<t, 1>>}
    /\ \A u \in uses : u[1] = <<u[2], 1>> /\ opens[u[2]] = 1
    /\ \A u, v \in uses : u[1] = v[1] => u[2] = v[2]

\* Two threads have each used their own handle in the read pass.
C9_Witness ==
    /\ pass = 3
    /\ Cardinality(uses) = 2
    /\ \A t \in 1..2 : opens[t] = 1

\* C10 (fresh ext4 directory, no failing I/O call): once the ext4 write pass
\* has returned, the directory holds exactly file_0 .. file_(num_files-1),
\* each of file_size characters; no task of the ext4 read pass raises, and the
\* read pass returns num_files samples, all of read/ext4 tasks.
C10_FilesWrittenThenRead ==
    /\ Len(ret) >= 2 =>
          /\ DOMAIN fs = {<<"file_", x>> : x \in 0..(num_files - 1)}
          /\ \A n \in DOMAIN fs : Len(fs[n]) = file_size
    /\ ~AnyRaised
    /\ Len(ret) = NumPasses =>
          /\ Len(ret[4]) = num_files
          /\ \A e \in Range(ret[4]) : e[1] = "read" /\ e[2] = "ext4"

C10_Witness ==
    /\ num_files = 2
    /\ file_size = 1
    /\ num_workers = 2
    /\ Len(ret) = NumPasses
    /\ DOMAIN fs = {<<"file_", 0>>, <<"file_", 1>>}

\* C11: with fewer than 2 samples per pass, plot_results is never called, and
\* once print_results has been called the run has aborted: all four passes
\* had returned and self.results was assigned, and standard output holds the
\* header and the "Write:" line but no line of any backend.
C11_ShortListsAbortReport ==
    num_files < 2 =>
      /\ opc \notin {"plot", "done"}
      /\ "plot_results" \notin Range(reporter)
      /\ reporter # <<>> =>
            /\ opc = "aborted"
            /\ reporter = <<"print_results">>
            /\ Len(ret) = NumPasses
            /\ DOMAIN results = Range(StatedOrder)
            /\ printed = << <<"header">>, <<"operation", "write">> >>

C11_Witness ==
    /\ num_files = 1
    /\ num_workers = 2
    /\ opc = "aborted"
    /\ reporter = <<"print_results">>

ElapsedOf(q) == [k \in 1..Len(q) |-> q[k].elapsed]

\* C13: the main thread is in the collect loop only when every pool thread
\* has exited and every worker() invocation has ended; if none of them
\* raised, all num_files results were put before, so the results collected
\* and those still queued add up to num_files and a needed result is always
\* there.
C13_CollectAfterWorkers ==
    opc = "collect" =>
      /\ \A t \in Threads : tpc[t] \in {"none", "exited"}
      /\ \A f \in 1..num_workers : fstate[f] \in {"done", "raised"}
      /\ ~AnyRaised =>
            /\ Len(arrived) = num_files
            /\ Len(pres) + Len(result_queue) = num_files
            /\ Len(pres) < num_files => result_queue # <<>>

\* Collection starts with all results of a two-task pass queued.
C13_Witness ==
    /\ opc = "collect"
    /\ num_workers = 2
    /\ pres = <<>>
    /\ Len(result_queue) = 2

\* C14: the list being collected is a prefix of the elapsed components of the
\* results in the order they were put on the result queue, and the list a
\* pass returned is exactly that sequence.
C14_ArrivalOrder ==
    /\ opc = "collect" =>
          /\ Len(pres) <= Len(arrived)
          /\ pres = SubSeq(ElapsedOf(arrived), 1, Len(pres))
    /\ (Len(ret) >= 1 /\ opc \notin {"submit", "join", "collect"}) =>
          ret[Len(ret)] = ElapsedOf(arrived)

\* With two workers the first pass returned its samples against task order.
C14_Witness ==
    /\ num_workers = 2
    /\ pass = 2
    /\ opc = "tasks"
    /\ ElapsedOf(arrived) = << <<"write", "leveldb", 1>>, <<"write", "leveldb", 0>> >>
    /\ ret[1] = ElapsedOf(arrived)

\* C15: with at least one worker, no failing I/O call and fair scheduling,
\* the run reaches the Reporter (so every pass returns and no state on the
\* way is a deadlock).
C15_ReachesReporter == (num_workers >= 1) ~> (reporter # <<>>)

C15_Witness ==
    /\ num_workers = 2
    /\ num_files = 2
    /\ Len(ret) = NumPasses
    /\ reporter # <<>>
    /\ \A t \in 1..2 : tpc[t] = "exited"

\* C16: once a task has raised inside a worker, the pass never returns: the
\* main thread stays at the with-block exit or in the collect loop and never
\* aborts, the invocation that raised dequeued no sentinel, fewer than
\* num_files results are ever put or collected, and in the collect loop a
\* sentinel is still in the task queue.
C16_RaiseBlocksPass ==
    AnyRaised =>
      /\ opc \in {"submit", "join", "collect"}
      /\ Len(ret) = pass - 1
      /\ reporter = <<>>
      /\ \A f \in Futures : fstate[f] = "raised" => terms[f] = 0
      /\ Len(arrived) < num_files
      /\ Len(pres) < num_files
      /\ opc = "collect" => SentinelsQueued >= 1

\* The main thread waits for a second result that will never be put.
C16_Witness ==
    /\ AnyRaised
    /\ num_files = 2
    /\ opc = "collect"
    /\ Len(pres) = 1
    /\ result_queue = <<>>

\* C17: in the task queue no sentinel stands before a task, and once a
\* worker of the pass has dequeued a sentinel every task of the pass has been
\* dequeued.
C17_TasksBeforeSentinels ==
    /\ \A j, k \in 1..Len(task_queue) :
          (j < k /\ task_queue[j] = None) => task_queue[k] = None
    /\ (opc \in {"submit", "join", "collect"} /\ SumTerms(MaxWorkers) > 0) =>
          /\ \A k \in 1..Len(task_queue) : task_queue[k] = None
          /\ \A x \in 0..(num_files - 1) : deq[x] = 1

\* One worker has left on its sentinel while the other still runs a task.
C17_Witness ==
    /\ num_workers = 2
    /\ SumTerms(MaxWorkers) = 1
    /\ \E t \in 1..2 : tpc[t] = "process"

\* C18: whenever a pass has collected its last result or has returned, the
\* task queue and the result queue are both empty; so they are when the next
\* pass starts to fill the task queue.
C18_QueuesEmptyBetweenPasses ==
    (\/ opc = "tasks" /\ i = 0
     \/ opc = "collect" /\ ~(Len(pres) < num_files)
     \/ opc \in {"assign", "print", "plot", "done"}
     \/ reporter # <<>>) =>
       /\ task_queue = <<>>
       /\ result_queue = <<>>

C18_Witness ==
    /\ num_files = 2
    /\ num_workers = 2
    /\ pass = 3
    /\ opc = "tasks"
    /\ i = 0

\* C19: every sample collected in a pass, and every sample stored in
\* self.results under (operation, storage), is the timing of a task tagged
\* with that operation and storage.
C19_SamplesOfOwnPass ==
    /\ opc = "collect" =>
          \A e \in Range(pres) : <<e[1], e[2]>> = StatedOrder[pass]
    /\ \A k \in DOMAIN results :
          \A e \in Range(results[k]) : <<e[1], e[2]>> = k

C19_Witness ==
    /\ opc = "print"
    /\ num_files = 2
    /\ Len(results[<<"read", "ext4">>]) = 2
    /\ Len(results[<<"write", "leveldb">>]) = 2

====
